---------------------------- MODULE Spec2Model ----------------------------
(***************************************************************************)
(* Model of rust/store/src/lib.rs: the shared Store (an Arc<RwLock<Conn>>  *)
(* plus its uri), the StoreConnections that share it, and the value        *)
(* marshalling traits ToTypedValue / ToInner.                              *)
(*                                                                         *)
(* Two specifications live in this module:                                 *)
(*   Spec        - the Store / StoreConnection state machine               *)
(*   SpecMarshal - the pure conversions, applied to bounded inputs         *)
(***************************************************************************)
EXTENDS Integers, FiniteSets, Sequences, TLC

(***************************************************************************)
(* Bounds of the model.                                                    *)
(***************************************************************************)
\* number of StoreConnections that can ever be created on the Store
MaxConns == 3
\* whole seconds of the sampled timestamps range over 0..MaxSec
MaxSec == 1

Conns == 1..MaxConns
\* the transactions handed to transact
Txs == {"tx"}

\* "no connection": the value of writer when the write lock is free
NoConn == 0
\* the database behind a non-empty location (a file); the private in-memory
\* database of the raw handle of connection c is named c
FileDb == 0

\* locations handed to Store::new_store: None/"" and a file path
Locations == {"", "store.db"}

ReadOps == {"query", "query_args", "fetch_schema"}
Ops == ReadOps \cup {"transact"}

VARIABLES
    \* ---- Store / StoreConnection ----
    cstate,      \* cstate[c]: "unborn", "live" or "dropped" StoreConnection
    pc,          \* pc[c]: "idle", "acquire" (blocked in read()/write()), "cs",
                 \*        or "panicked" (the last call on c panicked)
    op,          \* op[c]: the call in progress on connection c, or "none"
    writer,      \* RwLock: the connection holding the write guard, or NoConn
    readers,     \* RwLock: the connections holding a read guard
    poisoned,    \* RwLock: the poison flag
    policy,      \* RwLock: the priority policy of the platform's lock
    uri,         \* Store.uri
    handleDb,    \* handleDb[c]: the database StoreConnection.handle is open on
    connDb,      \* the database Store.conn was connected over
    dbData,      \* dbData[d]: the transactions stored in database d
    connMeta,    \* the schema / metadata cached in the shared Conn
    refs,        \* strong count of Store.conn (the Arc)
    connReleased,\* number of times the shared Conn was released
    dropEvents,  \* number of times Drop for Store ran (its println!)
    errSeen,     \* history: some call has returned an engine error (Err)
    \* ---- marshalling ----
    build,       \* "debug" (overflow checks on) or "release" (wrapping)
    native,      \* the native value being converted, or NoValue
    tagged,      \* the TypedValue at hand, NoValue, or Panicked
    target,      \* the ToInner impl last used, or NoImpl
    inner        \* the result of the last to_inner, or NoValue

storeVars == <<cstate, pc, op, writer, readers, poisoned, policy, uri,
               handleDb, connDb, dbData, connMeta, refs, connReleased,
               dropEvents, errSeen>>
marshalVars == <<build, native, tagged, target, inner>>
vars == <<storeVars, marshalVars>>

\* no ToInner impl used yet
NoImpl == [target |-> "none", of |-> "none"]
NoValue == [tag |-> "NoValue"]
Panicked == [tag |-> "Panicked"]

(***************************************************************************)
(* std::sync::RwLock, as used through Store.conn.                          *)
(***************************************************************************)
\* Whether a call to write() on the lock can return now: no guard is out.
CanWriteNoReaderCheck(c) == writer = NoConn
CanWrite(c) == writer = NoConn /\ readers = {}

\* A connection blocked in write().
WriterWaiting == \E d \in Conns : pc[d] = "acquire" /\ op[d] = "transact"

\* Whether a call to read() can return now.  Readers share the lock.  The
\* priority policy is the platform's: std documents that no particular
\* policy is guaranteed, and a writer-preferring lock holds back new
\* readers while a writer waits.
CanReadExclusive(c) == writer = NoConn /\ readers = {}
CanRead(c) ==
    /\ writer = NoConn
    /\ (policy = "prefer_writer" => ~WriterWaiting)

CanAcquire(c) == IF op[c] = "transact" THEN CanWrite(c) ELSE CanRead(c)

\* The guard is a temporary of the call's single expression statement: it is
\* dropped when the call ends, however it ends.
ReadersAfterLeak(c, outcome) ==
    IF outcome = "err" THEN readers ELSE readers \ {c}
ReadersAfter(c, outcome) == readers \ {c}
WriterAfter(c, outcome) == IF writer = c THEN NoConn ELSE writer

\* Dropping a write guard while panicking poisons the lock; a read guard
\* never does.
PoisonedAfter(c, outcome) == poisoned \/ (writer = c /\ outcome = "panic")

(***************************************************************************)
(* mentat::new_connection(uri): the raw handle.                            *)
(***************************************************************************)
\* An empty uri opens a fresh in-memory database private to the handle; any
\* other uri opens the file it names.
OpenRaw(location, c) == IF location = "" THEN c ELSE FileDb

\* What a query through connection c reads: the data of its raw handle.
QueryView(c) == dbData[handleDb[c]]
\* What fetch_schema returns: the schema of the shared Conn.
SchemaView(c) == connMeta

(***************************************************************************)
(* Store::new_store / Store::new                                           *)
(***************************************************************************)
Opened == \E c \in Conns : cstate[c] # "unborn"

NewStore(location) ==
    /\ ~Opened
    /\ cstate' = [cstate EXCEPT ![1] = "live"]
    /\ uri' = location
    /\ handleDb' = [handleDb EXCEPT ![1] = OpenRaw(location, 1)]
    /\ connDb' = OpenRaw(location, 1)
    /\ refs' = 1
    /\ UNCHANGED <<pc, op, writer, readers, poisoned, policy, dbData,
                   connMeta, connReleased, dropEvents, errSeen>>
    /\ UNCHANGED marshalVars

\* new_connection or Conn::connect failed: the error is returned and nothing
\* was built.
NewStoreFails(location) ==
    /\ ~Opened
    /\ UNCHANGED vars

(***************************************************************************)
(* StoreConnection::new_connection                                         *)
(***************************************************************************)
\* The uri handed to mentat::new_connection by StoreConnection::new_connection.
NewConnectionUri(c) == uri

NextUnborn == CHOOSE d \in Conns : cstate[d] = "unborn" /\
                  \A e \in Conns : cstate[e] = "unborn" => d <= e

NewConnection(c) ==
    /\ cstate[c] = "live" /\ pc[c] = "idle"
    /\ \E d \in Conns : cstate[d] = "unborn"
    /\ LET d == NextUnborn IN
        /\ cstate' = [cstate EXCEPT ![d] = "live"]
        /\ handleDb' = [handleDb EXCEPT ![d] = OpenRaw(NewConnectionUri(c), d)]
        /\ refs' = refs + 1
    /\ UNCHANGED <<pc, op, writer, readers, poisoned, policy, uri,
                   connDb, dbData, connMeta, connReleased, dropEvents, errSeen>>
    /\ UNCHANGED marshalVars

\* mentat::new_connection failed: `?` returns before the Store is cloned.
NewConnectionFails(c) ==
    /\ cstate[c] = "live" /\ pc[c] = "idle"
    /\ UNCHANGED vars

(***************************************************************************)
(* query / query_args / fetch_schema / transact                            *)
(***************************************************************************)
\* The call starts: it goes to read() or write() on Store.conn.
Call(c, o) ==
    /\ cstate[c] = "live" /\ pc[c] = "idle"
    /\ pc' = [pc EXCEPT ![c] = "acquire"]
    /\ op' = [op EXCEPT ![c] = o]
    /\ UNCHANGED <<cstate, writer, readers, poisoned, policy, uri,
                   handleDb, connDb, dbData, connMeta, refs, connReleased,
                   dropEvents, errSeen>>
    /\ UNCHANGED marshalVars

\* read()/write() returns Ok(guard): the call is in its critical section.
Acquire(c) ==
    /\ pc[c] = "acquire"
    /\ CanAcquire(c)
    /\ ~poisoned
    /\ pc' = [pc EXCEPT ![c] = "cs"]
    /\ IF op[c] = "transact"
         THEN writer' = c /\ UNCHANGED readers
         ELSE readers' = readers \cup {c} /\ UNCHANGED writer
    /\ UNCHANGED <<cstate, op, poisoned, policy, uri, handleDb,
                   connDb, dbData, connMeta, refs, connReleased, dropEvents, errSeen>>
    /\ UNCHANGED marshalVars

\* Where a call is after it ended with `outcome`: back at its caller with a
\* value (Ok or Err), or unwinding from a panic.
PcAfter(outcome) == IF outcome = "panic" THEN "panicked" ELSE "idle"

\* What .unwrap() makes of the Err(PoisonError) of read()/write(): a panic.
PoisonOutcome == "panic"

\* read()/write() on a poisoned lock: the lock is taken, the PoisonError is
\* returned, unwrap panics and the guard inside the error is dropped.
AcquirePoisoned(c) ==
    /\ pc[c] = "acquire"
    /\ CanAcquire(c)
    /\ poisoned
    /\ pc' = [pc EXCEPT ![c] = PcAfter(PoisonOutcome)]
    /\ op' = [op EXCEPT ![c] = "none"]
    /\ UNCHANGED <<cstate, writer, readers, poisoned, policy, uri, handleDb,
                   connDb, dbData, connMeta, refs, connReleased, dropEvents, errSeen>>
    /\ UNCHANGED marshalVars

\* The outcomes of the engine call made inside the critical section.
\* fetch_schema returns a plain value: it has no error result.
Outcomes(o) == IF o = "fetch_schema" THEN {"ok", "panic"} ELSE {"ok", "err", "panic"}

\* The engine call ends and the guard is dropped.  A successful transact
\* writes through the connection's raw handle and updates the shared Conn.
Finish(c, outcome, tx) ==
    /\ pc[c] = "cs"
    /\ outcome \in Outcomes(op[c])
    /\ pc' = [pc EXCEPT ![c] = PcAfter(outcome)]
    /\ op' = [op EXCEPT ![c] = "none"]
    /\ readers' = ReadersAfter(c, outcome)
    /\ writer' = WriterAfter(c, outcome)
    /\ poisoned' = PoisonedAfter(c, outcome)
    /\ IF op[c] = "transact" /\ outcome = "ok"
         THEN /\ dbData' = [dbData EXCEPT ![handleDb[c]] = @ \cup {tx}]
              /\ connMeta' = connMeta \cup {tx}
         ELSE UNCHANGED <<dbData, connMeta>>
    /\ errSeen' = (errSeen \/ outcome = "err")
    /\ UNCHANGED <<cstate, policy, uri, handleDb, connDb, refs, connReleased,
                   dropEvents>>
    /\ UNCHANGED marshalVars

(***************************************************************************)
(* Dropping a StoreConnection: its handle, then its Store clone.           *)
(***************************************************************************)
\* Drop for Store runs for the Store value being dropped.
DropEventsAfter(c) == dropEvents + 1

\* The Arc releases the Conn when its last strong reference goes.
ConnReleasedAfter(c) == IF refs = 1 THEN connReleased + 1 ELSE connReleased

DropConnection(c) ==
    /\ cstate[c] = "live" /\ pc[c] \in {"idle", "panicked"}
    /\ cstate' = [cstate EXCEPT ![c] = "dropped"]
    /\ pc' = [pc EXCEPT ![c] = "idle"]
    \* an in-memory database goes with its handle
    /\ dbData' = IF handleDb[c] = FileDb THEN dbData
                 ELSE [dbData EXCEPT ![handleDb[c]] = {}]
    /\ dropEvents' = DropEventsAfter(c)
    /\ refs' = refs - 1
    /\ connReleased' = ConnReleasedAfter(c)
    /\ UNCHANGED <<op, writer, readers, poisoned, policy, uri, handleDb,
                   connDb, connMeta, errSeen>>
    /\ UNCHANGED marshalVars

(***************************************************************************)
(* The Store specification.                                                *)
(***************************************************************************)
StoreInit ==
    /\ cstate = [c \in Conns |-> "unborn"]
    /\ pc = [c \in Conns |-> "idle"]
    /\ op = [c \in Conns |-> "none"]
    /\ writer = NoConn
    /\ readers = {}
    /\ poisoned = FALSE
    /\ policy \in {"prefer_reader", "prefer_writer"}
    /\ uri = ""
    /\ handleDb = [c \in Conns |-> c]
    /\ connDb = FileDb
    /\ dbData = [d \in {FileDb} \cup Conns |-> {}]
    /\ connMeta = {}
    /\ refs = 0
    /\ connReleased = 0
    /\ dropEvents = 0
    /\ errSeen = FALSE

MarshalIdle ==
    /\ build = "debug"
    /\ native = NoValue
    /\ tagged = NoValue
    /\ target = NoImpl
    /\ inner = NoValue

Init == StoreInit /\ MarshalIdle

Next ==
    \/ \E l \in Locations : NewStore(l)
    \/ \E l \in Locations : NewStoreFails(l)
    \/ \E c \in Conns : NewConnection(c)
    \/ \E c \in Conns : NewConnectionFails(c)
    \/ \E c \in Conns, o \in Ops : Call(c, o)
    \/ \E c \in Conns : Acquire(c)
    \/ \E c \in Conns : AcquirePoisoned(c)
    \/ \E c \in Conns, outcome \in {"ok", "err", "panic"}, tx \in Txs :
           Finish(c, outcome, tx)
    \/ \E c \in Conns : DropConnection(c)


Spec == Init /\ [][Next]_vars

(***************************************************************************)
(* Value marshalling: mentat_core::TypedValue, ToTypedValue, ToInner.      *)
(*                                                                         *)
(* Every payload is a record whose field names tell its type, so values of *)
(* different types compare unequal:                                        *)
(*   [str |-> s]  [bool |-> b]  [int |-> i]  [f64 |-> x]  [uuid |-> u]     *)
(*   [kw |-> k]   [id |-> entid]              (Entity)                     *)
(*   [sec |-> s, nsec |-> n]                  (time::Timespec)             *)
(*   [secs |-> s, usecs |-> u]                (DateTime<Utc>: microseconds *)
(*                                             since epoch = s*10^6 + u,   *)
(*                                             0 <= u < 10^6)              *)
(***************************************************************************)
\* the factors of `(self.sec * 1000000) + i64::from((self.nsec * 1000))`
SecFactor == 1000000
NsecFactor == 1000

TV(tag, v) == [tag |-> tag, v |-> v]
Some(x) == [some |-> x]
None == [none |-> TRUE]
IsTypedValue(t) == t # NoValue /\ t # Panicked

\* Uuid::nil()
UuidNil == [uuid |-> "00000000-0000-0000-0000-000000000000"]
\* String::new()
StringNew == [str |-> ""]

\* ---- impl ToTypedValue for ... ----
ToTypedValueString(s) == TV("String", s)
ToTypedValueStr(s) == TV("String", s)
ToTypedValueEntity(e) == TV("Ref", [int |-> e.id])
ToTypedValueKeyword(k) == TV("Keyword", k)
ToTypedValueBool(b) == TV("Boolean", b)
ToTypedValueI64(i) == TV("Long", i)
ToTypedValueF64(x) == TV("Double", x)
ToTypedValueUuid(u) == TV("Uuid", u)

\* `self.nsec * 1000` is a multiplication of i32: its value when it leaves
\* i32 and the build wraps (two's complement, 32 bits), computed on 16-bit
\* halves; a >= 0, 0 < k < 2^15
I32WrappingMul(a, k) ==
    LET lo == (a % 65536) * k
        hi == ((a \div 65536) * k + (lo \div 65536)) % 65536
        lo16 == lo % 65536
    IN  IF hi >= 32768 THEN (hi - 65536) * 65536 + lo16
                       ELSE hi * 65536 + lo16

\* DateTime::<Utc>::from_micros(sec * 1000000 + p), kept as whole seconds
\* and microseconds of the second
FromMicros(sec, p) ==
    [secs |-> sec + (p \div SecFactor), usecs |-> p % SecFactor]

\* impl ToTypedValue for Timespec.  The product leaves i32 when nsec is
\* above i32::MAX / 1000; a debug build then panics, a release build wraps.
ToTypedValueTimespec(t, b) ==
    IF t.nsec > 2147483647 \div NsecFactor
    THEN IF b = "debug"
         THEN Panicked
         ELSE TV("Instant", FromMicros(t.sec, I32WrappingMul(t.nsec, NsecFactor)))
    ELSE TV("Instant", FromMicros(t.sec, t.nsec * NsecFactor))

\* to_typed_value of native value n (its impl is chosen by its type)
ToTypedValue(n, b) ==
    CASE n.type = "String" -> ToTypedValueString(n.v)
      [] n.type = "&str" -> ToTypedValueStr(n.v)
      [] n.type = "Entity" -> ToTypedValueEntity(n.v)
      [] n.type = "NamespacedKeyword" -> ToTypedValueKeyword(n.v)
      [] n.type = "bool" -> ToTypedValueBool(n.v)
      [] n.type = "i64" -> ToTypedValueI64(n.v)
      [] n.type = "f64" -> ToTypedValueF64(n.v)
      [] n.type = "Timespec" -> ToTypedValueTimespec(n.v, b)
      [] n.type = "Uuid" -> ToTypedValueUuid(n.v)

\* ---- impl ToInner<...> for ... ----
\* DateTime::timestamp(): the whole seconds since the epoch
Timestamp(v) == v.secs

ToInnerOptEntity(tv) ==
    IF tv.tag = "Ref" THEN Some([id |-> tv.v.int]) ELSE None

ToInnerOptI64OfRef(tv) ==
    IF tv.tag = "Ref" THEN Some(tv.v) ELSE None
ToInnerOptI64(tv) ==
    IF tv.tag = "Long" THEN Some(tv.v) ELSE None

ToInnerString(tv) ==
    IF tv.tag = "String" THEN tv.v ELSE StringNew

ToInnerUuid(tv) ==
    IF tv.tag = "Uuid" THEN tv.v ELSE UuidNil

ToInnerOptTimespec(tv) ==
    IF tv.tag = "Instant" THEN Some([sec |-> Timestamp(tv.v), nsec |-> 0])
                          ELSE None

\* for Option<&TypedValue>: o is None or Some(tv)
ToInnerOptTimespecOfOption(o) ==
    IF o # None /\ o.some.tag = "Instant"
    THEN Some([sec |-> Timestamp(o.some.v), nsec |-> 0])
    ELSE None

\* for &TypedValue
ToInnerUuidOfRef(tv) ==
    IF tv.tag = "Uuid" THEN tv.v ELSE UuidNil

\* The ToInner impls there are: their target type and their receiver.
ToInnerImpls ==
    { [target |-> "Option<Entity>", of |-> "TypedValue"],
      [target |-> "Option<i64>", of |-> "TypedValue"],
      [target |-> "String", of |-> "TypedValue"],
      [target |-> "Uuid", of |-> "TypedValue"],
      [target |-> "Option<Timespec>", of |-> "TypedValue"],
      [target |-> "Option<Timespec>", of |-> "Option<&TypedValue>"],
      [target |-> "Uuid", of |-> "&TypedValue"] }
ToInnerTargets == {i.target : i \in ToInnerImpls}

\* to_inner through impl i on the TypedValue tv
ToInner(i, tv) ==
    CASE i.of = "Option<&TypedValue>" -> ToInnerOptTimespecOfOption(Some(tv))
      [] i.of = "&TypedValue" -> ToInnerUuidOfRef(tv)
      [] i.of = "TypedValue" /\ i.target = "Option<Entity>" -> ToInnerOptEntity(tv)
      [] i.of = "TypedValue" /\ i.target = "Option<i64>" -> ToInnerOptI64(tv)
      [] i.of = "TypedValue" /\ i.target = "String" -> ToInnerString(tv)
      [] i.of = "TypedValue" /\ i.target = "Uuid" -> ToInnerUuid(tv)
      [] i.of = "TypedValue" /\ i.target = "Option<Timespec>" -> ToInnerOptTimespec(tv)

(***************************************************************************)
(* The inputs of the conversions.                                          *)
(***************************************************************************)
Native(type, v) == [type |-> type, v |-> v]

StringSamples == {[str |-> ""], [str |-> "a"], [str |-> "mentat"]}
BoolSamples == {[bool |-> TRUE], [bool |-> FALSE]}
I64Samples == {[int |-> -1], [int |-> 0], [int |-> 65536]}
F64Samples == {[f64 |-> "0.0"], [f64 |-> "-1.5"], [f64 |-> "NaN"]}
UuidSamples == {UuidNil, [uuid |-> "4cb3f828-752d-497a-90c9-b1fd516d5644"]}
EntidSamples == {0, 65536}
KeywordSamples == {[kw |-> ":foo/bar"]}
\* nanoseconds of the second, 0 <= nsec < 10^9, on both sides of the place
\* where nsec * 1000 leaves i32, and such that the microseconds stay >= 0
NsecSamples == {0, 1, 999, 1000, 1500, 999999, 2147483, 4294968, 500000000}
TimespecSamples == {[sec |-> s, nsec |-> n] : s \in 0..MaxSec, n \in NsecSamples}

NativeSamples ==
    {Native("String", v) : v \in StringSamples}
    \cup {Native("&str", v) : v \in StringSamples}
    \cup {Native("Entity", [id |-> e]) : e \in EntidSamples}
    \cup {Native("NamespacedKeyword", v) : v \in KeywordSamples}
    \cup {Native("bool", v) : v \in BoolSamples}
    \cup {Native("i64", v) : v \in I64Samples}
    \cup {Native("f64", v) : v \in F64Samples}
    \cup {Native("Timespec", v) : v \in TimespecSamples}
    \cup {Native("Uuid", v) : v \in UuidSamples}

\* TypedValues as the engine hands them out in query results
EngineValues ==
    {TV("String", v) : v \in StringSamples}
    \cup {TV("Ref", [int |-> e]) : e \in EntidSamples}
    \cup {TV("Boolean", v) : v \in BoolSamples}
    \cup {TV("Long", v) : v \in I64Samples}
    \cup {TV("Double", v) : v \in F64Samples}
    \cup {TV("Uuid", v) : v \in UuidSamples}
    \cup {TV("Keyword", v) : v \in KeywordSamples}
    \cup {TV("Instant", [secs |-> s, usecs |-> u]) :
              s \in 0..MaxSec, u \in {0, 1, 500000}}

(***************************************************************************)
(* The marshalling specification: a value is drawn, converted with         *)
(* to_typed_value, and extracted with one of the to_inner impls.           *)
(***************************************************************************)
StoreIdle == StoreInit /\ policy = "prefer_reader"

MarshalInit ==
    /\ StoreIdle
    /\ build \in {"debug", "release"}
    /\ native \in NativeSamples \cup {NoValue}
    /\ tagged \in IF native = NoValue THEN EngineValues ELSE {NoValue}
    /\ target = NoImpl
    /\ inner = NoValue

\* native.to_typed_value()
ToTypedValueStep ==
    /\ native # NoValue /\ tagged = NoValue
    /\ tagged' = ToTypedValue(native, build)
    /\ UNCHANGED <<build, native, target, inner>>
    /\ UNCHANGED storeVars

\* tagged.to_inner() through impl i
ToInnerStep(i) ==
    /\ IsTypedValue(tagged) /\ inner = NoValue
    /\ inner' = ToInner(i, tagged)
    /\ target' = i
    /\ UNCHANGED <<build, native, tagged>>
    /\ UNCHANGED storeVars

\* to_inner on the None of an Option<&TypedValue> (a result with no value)
ToInnerOfNoneStep ==
    /\ native = NoValue /\ inner = NoValue
    /\ inner' = ToInnerOptTimespecOfOption(None)
    /\ target' = [target |-> "Option<Timespec>", of |-> "Option<&TypedValue>"]
    /\ tagged' = NoValue
    /\ UNCHANGED <<build, native>>
    /\ UNCHANGED storeVars

MarshalNext ==
    \/ ToTypedValueStep
    \/ \E i \in ToInnerImpls : ToInnerStep(i)
    \/ ToInnerOfNoneStep

SpecMarshal == MarshalInit /\ [][MarshalNext]_vars

(***************************************************************************)
(* Claims about the Store and its StoreConnections (specification Spec).  *)
(***************************************************************************)
Live == {c \in Conns : cstate[c] = "live"}
InCS(c) == pc[c] = "cs"
WaitingRead(c) == pc[c] = "acquire" /\ op[c] \in ReadOps
\* read()/write() of the call waiting on c can return now
LockCallReturns(c) == ENABLED (Acquire(c) \/ AcquirePoisoned(c))

\* C1: while a transact is inside its critical section (it holds the write
\* guard of the Store's Conn), no other query, query_args, fetch_schema or
\* transact on any StoreConnection of the Store is inside its critical
\* section, and the read()/write() of every such waiting call cannot return.
C1_WriterExclusion ==
    \A c \in Conns :
        (InCS(c) /\ op[c] = "transact") =>
            /\ writer = c
            /\ readers = {}
            /\ \A d \in Conns \ {c} :
                   /\ ~InCS(d)
                   /\ pc[d] = "acquire" => ~LockCallReturns(d)

\* A transact is in its critical section while a read and another transact
\* wait for the lock.
C1_Witness ==
    \E c, d, e \in Conns :
        /\ InCS(c) /\ op[c] = "transact"
        /\ pc[d] = "acquire" /\ op[d] \in ReadOps
        /\ pc[e] = "acquire" /\ op[e] = "transact"

\* C2 as stated: a read call waiting for the lock is blocked only if a
\* writer currently holds it.
C2_BlockedOnlyByWriterHolding ==
    \A c \in Conns :
        (WaitingRead(c) /\ writer = NoConn) => LockCallReturns(c)

\* C2, amended: a read call waiting for the lock is blocked only if a writer
\* holds the lock or, where the platform's lock prefers writers, a transact
\* waits for it; it is never blocked because other readers hold the lock,
\* and every read inside its critical section holds a read guard together
\* with the others and can complete.
C2_ReadersShare ==
    /\ \A c \in Conns :
           (WaitingRead(c) /\ writer = NoConn /\ ~WriterWaiting)
               => LockCallReturns(c)
    /\ \A c \in Conns :
           (InCS(c) /\ op[c] \in ReadOps) =>
               /\ c \in readers
               /\ writer = NoConn
               /\ ENABLED Finish(c, "ok", "tx")

\* Two reads are inside their critical sections and a third read waits for
\* the lock, with no transact holding or waiting for it.
C2_Witness ==
    /\ Cardinality({c \in Conns : InCS(c) /\ op[c] \in ReadOps}) >= 2
    /\ \E c \in Conns : WaitingRead(c)
    /\ writer = NoConn /\ ~WriterWaiting

\* C3: once the lock is poisoned, a call that reaches read()/write() goes
\* back to its caller with an error value; it does not panic.
C3_PoisonIsAnErrorValue ==
    [][\A c \in Conns :
           (poisoned /\ pc[c] = "acquire" /\ pc'[c] # "acquire")
               => pc'[c] = "idle"]_vars

\* C4: when a call returns from its critical section with a value (Ok or
\* Err), its connection holds neither guard any more and the lock is not
\* poisoned; no connection outside a critical section holds a guard.
C4_ReleasedOnReturn ==
    [][/\ \A c \in Conns :
              (InCS(c) /\ pc'[c] = "idle") =>
                  /\ c \notin readers'
                  /\ writer' # c
                  /\ ~poisoned'
       /\ \A c \in Conns : ~InCS(c)' => (c \notin readers' /\ writer' # c)]_vars

\* After a call returned an engine error, a later transact is inside its
\* critical section on a lock that is not poisoned.
C4_Witness ==
    /\ errSeen
    /\ ~poisoned
    /\ \E c \in Conns : InCS(c) /\ op[c] = "transact"

\* C5: the raw handle of every StoreConnection is on the database of the
\* Store's Conn, and queries through any two StoreConnections of the Store
\* see the same data and the same schema.
C5_SameDatabase ==
    \A c, d \in Live :
        /\ QueryView(c) = QueryView(d)
        /\ SchemaView(c) = SchemaView(d)

\* C6: the Store's drop event and the release of the shared Conn each happen
\* exactly once, at the drop of the last StoreConnection, and never while a
\* StoreConnection of the Store is live.
C6_TeardownAtLastDrop ==
    /\ dropEvents <= 1
    /\ connReleased <= 1
    /\ (dropEvents > 0 \/ connReleased > 0) => Live = {}
    /\ (Opened /\ Live = {}) => (dropEvents = 1 /\ connReleased = 1)

(***************************************************************************)
(* Claims about the conversions (specification SpecMarshal).              *)
(***************************************************************************)
Converted == native # NoValue /\ tagged # NoValue
Extracted == IsTypedValue(tagged) /\ inner # NoValue

\* C7: to_typed_value of a Timespec (sec, nsec), 0 <= nsec < 10^9, does not
\* fail and is the Instant of sec * 1000000 + floor(nsec / 1000)
\* microseconds since the epoch.
C7_TimespecToMicros ==
    (Converted /\ native.type = "Timespec") =>
        tagged = TV("Instant", [secs |-> native.v.sec,
                                usecs |-> native.v.nsec \div NsecFactor])

\* C8: to_inner of to_typed_value of a Timespec (sec, nsec) is present and
\* is (sec, nsec - nsec mod 1000).
C8_TimespecRoundTrip ==
    (Converted /\ native.type = "Timespec" /\ Extracted
        /\ target.target = "Option<Timespec>") =>
            inner = Some([sec |-> native.v.sec,
                          nsec |-> native.v.nsec
                                     - (native.v.nsec % NsecFactor)])

\* the scalar kinds, the variant of each and the type to_inner would have to
\* yield for it (plain or optional)
ScalarTypes == {"String", "bool", "i64", "f64", "Uuid", "Entity"}
VariantOf(type) ==
    CASE type = "String" -> "String"
      [] type = "bool" -> "Boolean"
      [] type = "i64" -> "Long"
      [] type = "f64" -> "Double"
      [] type = "Uuid" -> "Uuid"
      [] type = "Entity" -> "Ref"
ExtractionsOf(type) ==
    CASE type = "String" -> {"String", "Option<String>"}
      [] type = "bool" -> {"bool", "Option<bool>"}
      [] type = "i64" -> {"i64", "Option<i64>"}
      [] type = "f64" -> {"f64", "Option<f64>"}
      [] type = "Uuid" -> {"Uuid", "Option<Uuid>"}
      [] type = "Entity" -> {"Entity", "Option<Entity>"}
\* the value v as the target type holds it
Present(t, v) == IF t \in {"String", "Uuid"} THEN v ELSE Some(v)
\* to_inner gave back the converted native value
RoundTrips ==
    (Extracted /\ target.target \in ExtractionsOf(native.type))
        => inner = Present(target.target, native.v)

\* C9 as stated: for every scalar kind, to_typed_value yields the variant
\* of the kind, a to_inner for the kind exists, and it gives the value back.
C9_EveryScalarRoundTrips ==
    (Converted /\ native.type \in ScalarTypes) =>
        /\ tagged.tag = VariantOf(native.type)
        /\ ExtractionsOf(native.type) \cap ToInnerTargets # {}
        /\ RoundTrips

\* C9, amended: for every scalar kind to_typed_value yields the variant of
\* the kind; for String, i64, Uuid and Entity to_inner gives the value back
\* (as Some(v) for the optional targets i64 and Entity); for bool and f64
\* there is no to_inner.
C9_ScalarRoundTrip ==
    (Converted /\ native.type \in ScalarTypes) =>
        /\ tagged.tag = VariantOf(native.type)
        /\ native.type \in {"String", "i64", "Uuid", "Entity"} =>
               /\ ExtractionsOf(native.type) \cap ToInnerTargets # {}
               /\ RoundTrips
        /\ native.type \in {"bool", "f64"} =>
               ExtractionsOf(native.type) \cap ToInnerTargets = {}

\* An i64 other than 0 went through to_typed_value and came back from
\* to_inner as Some of itself.
C9_Witness ==
    /\ Converted /\ Extracted
    /\ native.type = "i64" /\ native.v.int # 0
    /\ target.target = "Option<i64>"
    /\ inner = Some(native.v)

\* the variant each to_inner target expects, its value on a mismatch, and
\* the wrapped value as the target type holds it
ExpectedTag(t) ==
    CASE t = "Option<Entity>" -> "Ref"
      [] t = "Option<i64>" -> "Long"
      [] t = "String" -> "String"
      [] t = "Uuid" -> "Uuid"
      [] t = "Option<Timespec>" -> "Instant"
DefaultOf(t) ==
    CASE t = "String" -> StringNew
      [] t = "Uuid" -> UuidNil
      [] OTHER -> None
WrappedOf(t, tv) ==
    CASE t = "Option<Entity>" -> Some([id |-> tv.v.int])
      [] t = "Option<i64>" -> Some(tv.v)
      [] t = "String" -> tv.v
      [] t = "Uuid" -> tv.v
      [] t = "Option<Timespec>" ->
             Some([sec |-> tv.v.secs, nsec |-> tv.v.usecs * NsecFactor])

\* C10: to_inner never fails; on a TypedValue of another variant than the
\* target expects it yields the default of the target (empty string, nil
\* uuid, None), on the expected variant it yields the wrapped value, so an
\* optional Entity or i64 is None exactly when the variant does not match.
C10_DefaultOnMismatch ==
    Extracted =>
        LET t == target.target IN
        /\ inner = IF tagged.tag = ExpectedTag(t) THEN WrappedOf(t, tagged)
                                                  ELSE DefaultOf(t)
        /\ t \in {"Option<Entity>", "Option<i64>"} =>
               (inner = None <=> tagged.tag # ExpectedTag(t))

=============================================================================
